---- MODULE Spec2Model ----
(***************************************************************************)
(* One run of TradingAlgorithm.run_daily_algorithm against the concrete    *)
(* DatabaseService, AlpacaService and MarketDataService.                   *)
(*                                                                         *)
(* Prices are whole dollars, symbols are 1..NumSymbols (their order is the *)
(* ORDER BY symbol of the positions table).  What the outside world        *)
(* answers (market open, prices, market data and the ranking it yields,    *)
(* indicator filters, the brokerage's acceptance, a failing sqlite call)   *)
(* is drawn with \E at the call that reads it.                             *)
(*                                                                         *)
(* Spec is the run.  CallSpec is one method called on its own              *)
(* (check_sell_signals, generate_daily_signals, calculate_momentum_12_1,   *)
(* calculate_macd, calculate_rsi, execute_buy_order, execute_sell_order)   *)
(* on arguments drawn when the call is set up.  OverlapSpec is two runs on *)
(* the one TradingAlgorithm, the scheduled one and the manually triggered  *)
(* one, interleaved at their collaborator calls.                           *)
(***************************************************************************)
EXTENDS Integers, Sequences, FiniteSets, TLC

VARIABLES
    trading_enabled,    \* self.trading_enabled
    max_positions,      \* self.max_positions
    positions,          \* table positions: symbol -> row (symbol is UNIQUE)
    positions_at_start, \* history: the table when the run started
    trades,             \* table trades, in insertion order
    orders,             \* history: calls of place_buy_order / place_sell_order
    attempts,           \* history: calls of execute_sell_order / execute_buy_order
    buy_signals,        \* local buy_signals of run_daily_algorithm
    sell_signals,       \* local sell_signals of run_daily_algorithm
    i_sell,             \* next index of the loop over sell_signals
    i_buy,              \* next index of the loop over buy_signals
    trades_executed,    \* local trades_executed
    handed,             \* history: arguments of the calls of log_daily_signals
    algorithm_runs,     \* table algorithm_runs, in insertion order
    result,             \* the Dict run_daily_algorithm returns
    recorder_failed,    \* history: a log_daily_signals / log_algorithm_run call raised
    check_locals,       \* locals of check_sell_signals while it runs
    call,               \* one method called on its own: arguments and results
    pc                  \* position in run_daily_algorithm

vars == <<trading_enabled, max_positions, positions,
          positions_at_start, trades, orders, attempts, buy_signals,
          sell_signals, i_sell, i_buy, trades_executed, handed,
          algorithm_runs, result, recorder_failed, check_locals, call, pc>>

(***************************************************************************)
(* Bounds and program constants                                            *)
(***************************************************************************)
NumSymbols == 2
MaxCap == 2

StopLossPct == 7
TopN == 30
UnrankedRank == 999

Symbols == 1..NumSymbols
Prices == {100}
AccountValues == {0, 1000}
HeldQuantity == {5}
HeldEntryPrice == {100, 110}

None == "None"
NoPrice == [ok |-> FALSE, v |-> 0]
PriceOpt == {NoPrice} \cup {[ok |-> TRUE, v |-> p] : p \in Prices}

Min(a, b) == IF a < b THEN a ELSE b
Max(a, b) == IF a > b THEN a ELSE b
Range(s) == {s[i] : i \in 1..Len(s)}
IndexOf(s, x) == CHOOSE i \in 1..Len(s) : s[i] = x

RECURSIVE Perms(_)
Perms(S) ==
    IF S = {} THEN {<<>>}
    ELSE UNION {{<<x>> \o p : p \in Perms(S \ {x})} : x \in S}

(***************************************************************************)
(* DatabaseService                                                         *)
(***************************************************************************)
RECURSIVE PositionRows(_, _)
PositionRows(table, s) ==
    IF s > NumSymbols THEN <<>>
    ELSE (IF s \in DOMAIN table /\ table[s].quantity > 0
          THEN <<[symbol |-> s, quantity |-> table[s].quantity,
                  entry_price |-> table[s].avg_entry_price]>>
          ELSE <<>>) \o PositionRows(table, s + 1)

\* SELECT ... WHERE quantity > 0 ORDER BY symbol; any exception gives [].
get_current_positions(table, db_ok) ==
    IF db_ok THEN PositionRows(table, 1) ELSE <<>>

\* INSERT OR REPLACE INTO positions.
update_position(table, symbol, quantity, avg_entry_price) ==
    [s \in (DOMAIN table) \cup {symbol} |->
        IF s = symbol
        THEN [quantity |-> quantity, avg_entry_price |-> avg_entry_price]
        ELSE table[s]]

\* DELETE FROM positions WHERE symbol = ?.
remove_position(table, symbol) ==
    [s \in (DOMAIN table) \ {symbol} |-> table[s]]

\* INSERT INTO trades.
log_trade(table, action, symbol, quantity, price, entry_price, reason, pnl) ==
    Append(table, [action |-> action, symbol |-> symbol, quantity |-> quantity,
                   price |-> price, entry_price |-> entry_price,
                   reason |-> reason, pnl |-> pnl])

\* INSERT INTO algorithm_runs.
log_algorithm_run(table, status, signals_generated, executed) ==
    Append(table, [status |-> status, signals_generated |-> signals_generated,
                   trades_executed |-> executed])

OpenSymbols(table) == {s \in DOMAIN table : table[s].quantity > 0}

(***************************************************************************)
(* Momentum ranking: the index of the Series calculate_momentum_12_1       *)
(* returns, best score first.  Symbols with fewer than 252 prices are not  *)
(* in it; no market data gives the empty ranking.                          *)
(***************************************************************************)
Rankings == UNION {Perms(S) : S \in SUBSET Symbols}

\* No head(): every ranked symbol.
HeadAll(ranking) == ranking

\* momentum_scores.head(30)
Head30(ranking) == SubSeq(ranking, 1, Min(TopN, Len(ranking)))

(***************************************************************************)
(* Signals.  One record shape for both kinds; a field a kind does not      *)
(* carry is 0 or "".  action_taken None is the pending state.              *)
(***************************************************************************)
BuySignal(symbol, momentum_rank) ==
    [side |-> "BUY", symbol |-> symbol, momentum_rank |-> momentum_rank,
     reason |-> "", current_price |-> 0, entry_price |-> 0, quantity |-> 0,
     action_taken |-> None]

SellSignal(position, reason, current_price, rank) ==
    [side |-> "SELL", symbol |-> position.symbol, momentum_rank |-> rank,
     reason |-> reason, current_price |-> current_price,
     entry_price |-> position.entry_price, quantity |-> position.quantity,
     action_taken |-> None]

(***************************************************************************)
(* TradingAlgorithm.check_sell_signals                                     *)
(***************************************************************************)
\* loss_pct = (entry_price - current_price) / entry_price >= self.stop_loss
StopLossHit(entry_price, current_price) ==
    (entry_price - current_price) * 100 >= StopLossPct * entry_price

StopLossSignal(position, current_price) ==
    IF StopLossHit(position.entry_price, current_price)
    THEN <<SellSignal(position, "stop_loss", current_price, 0)>>
    ELSE <<>>

MomentumExitSignal(position, current_price, ranking) ==
    IF position.symbol \notin Range(Head30(ranking))
    THEN <<SellSignal(position, "momentum_exit", current_price,
                      IF position.symbol \in Range(ranking)
                      THEN IndexOf(ranking, position.symbol)
                      ELSE UnrankedRank)>>
    ELSE <<>>

\* The stop-loss branch without its `continue`: both checks run.
PositionSignalsNoContinue(position, price, ranking) ==
    IF ~price.ok THEN <<>>
    ELSE StopLossSignal(position, price.v)
         \o MomentumExitSignal(position, price.v, ranking)

\* The body of the loop over current_positions.
PositionSignals(position, price, ranking) ==
    IF ~price.ok THEN <<>>
    ELSE IF StopLossSignal(position, price.v) # <<>>
         THEN StopLossSignal(position, price.v)
         ELSE MomentumExitSignal(position, price.v, ranking)

RECURSIVE RawSellSignals(_, _, _, _)
RawSellSignals(current, k, price_of, ranking) ==
    IF k > Len(current) THEN <<>>
    ELSE PositionSignals(current[k], price_of[current[k].symbol], ranking)
         \o RawSellSignals(current, k + 1, price_of, ranking)

\* No sort: the signals stay in the order of the loop over the positions.
SortSellSignalsNone(raw) == raw

\* sell_signals.sort(key=signal_strength, reverse=True): a stable sort, and
\* the strengths are 1.0 (stop_loss) and 0.8 (momentum_exit).
SortSellSignals(raw) ==
    SelectSeq(raw, LAMBDA s : s.reason = "stop_loss")
    \o SelectSeq(raw, LAMBDA s : s.reason # "stop_loss")

check_sell_signals(current, price_of, ranking) ==
    IF current = <<>> THEN <<>>
    ELSE SortSellSignals(RawSellSignals(current, 1, price_of, ranking))

(***************************************************************************)
(* TradingAlgorithm.generate_daily_signals: the symbols of the top 30 that *)
(* pass the MACD/RSI filter, ordered by signal_strength.  The strength     *)
(* mixes rank, MACD and RSI, so the filter's answers and the order are the *)
(* market's: passed is any subset of the top 30 and order any order of it. *)
(***************************************************************************)
generate_daily_signals(ranking, order) ==
    [i \in 1..Len(order) |->
        BuySignal(order[i], IndexOf(Head30(ranking), order[i]))]

(***************************************************************************)
(* The technical filters.  macd_data and rsi_data are the last two rows of *)
(* the indicator's column (prev is iloc[-2], current is iloc[-1]); a frame *)
(* that is not None has at least two rows (calculate_macd gives None under *)
(* slow + signal prices, calculate_rsi under period + 1).                  *)
(***************************************************************************)
check_macd_bullish(macd_data) ==
    LET current_macd == macd_data.current
        prev_macd == macd_data.prev
        bullish_crossover == current_macd > 0 /\ prev_macd <= 0
        bullish_momentum == current_macd > prev_macd /\ current_macd > 0
    IN  bullish_crossover \/ bullish_momentum

check_rsi_bullish(rsi_data) ==
    LET current_rsi == rsi_data.current
        prev_rsi == rsi_data.prev
        bullish_momentum == current_rsi > 50 /\ prev_rsi <= 50
        oversold_bounce == current_rsi > 30 /\ prev_rsi <= 30
    IN  bullish_momentum \/ oversold_bounce

\* One bullish indicator is enough whatever self.relaxed_filters is.
filters_ok_either(macd_bullish, rsi_bullish, relaxed_filters) ==
    macd_bullish \/ rsi_bullish

filters_ok(macd_bullish, rsi_bullish, relaxed_filters) ==
    \/ macd_bullish /\ rsi_bullish
    \/ relaxed_filters /\ (macd_bullish \/ rsi_bullish)

(***************************************************************************)
(* TradingAlgorithm.execute_buy_order / execute_sell_order as functions of *)
(* the signal and of what the collaborators answer.  The result says what  *)
(* the call did: the tag it set, whether it called the brokerage, logged a *)
(* trade, wrote the position, and the bool it returned.                    *)
(***************************************************************************)
\* Every order placed counts as a trade executed.
OutcomeCountsOrders(tag, submitted, accepted, quantity, price, logged, stored, raised) ==
    [tag |-> tag, submitted |-> submitted, accepted |-> accepted,
     quantity |-> quantity, price |-> price, trade_logged |-> logged,
     position_written |-> stored, raised |-> raised,
     ret |-> submitted]

Outcome(tag, submitted, accepted, quantity, price, logged, stored, raised) ==
    [tag |-> tag, submitted |-> submitted, accepted |-> accepted,
     quantity |-> quantity, price |-> price, trade_logged |-> logged,
     position_written |-> stored, raised |-> raised,
     ret |-> (tag \in {"bought", "sold"})]

Rejected(tag) == Outcome(tag, FALSE, FALSE, 0, 0, FALSE, FALSE, FALSE)

\* any(pos['symbol'] == symbol for pos in current_positions)
AlreadyOwned(current, symbol) ==
    \E k \in 1..Len(current) : current[k].symbol = symbol

\* len(current_positions) >= self.max_positions
AtMaxPositions(current, cap) == Len(current) >= cap

\* At least one share is ordered.
BuyQuantityAtLeastOne(account_value, cap, current_price) ==
    IF (account_value \div cap) \div current_price < 1 THEN 1
    ELSE (account_value \div cap) \div current_price

\* The account value is not divided by max_positions.
BuyQuantityUndivided(account_value, cap, current_price) ==
    account_value \div current_price

\* int((account_value / self.max_positions) / current_price)
BuyQuantity(account_value, cap, current_price) ==
    (account_value \div cap) \div current_price

\* max(current_price * 1.005, current_price + 0.50) and
\* min(current_price * 0.995, current_price - 0.50), in thousandths of a
\* dollar for a price in whole dollars.
BuyLimit(current_price) ==
    Max(current_price * 1005, current_price * 1000 + 500)

SellLimit(current_price) ==
    Min(current_price * 995, current_price * 1000 - 500)

\* round(x, 2), in cents: the cent nearest to x.  x is a binary float, so at
\* half a cent (101 * 1.005 = 101.505) it lies just under or just over the
\* half and either neighbour can come out: round(101 * 0.995, 2) is 100.5
\* and round(103 * 0.995, 2) is 102.48.
Round2(thousandths) ==
    {cents \in {thousandths \div 10, thousandths \div 10 + 1} :
        10 * cents - thousandths \in -5..5}

\* Every order is a market order, extended hours or not.
OrderRequestMarket(extended_hours, limit_price) ==
    [order_type |-> "market", limit_price |-> <<>>]

\* if getattr(self.alpaca, 'extended_hours', False): order_type='limit',
\* limit_price=limit_price, else order_type='market'
OrderRequest(extended_hours, limit_price) ==
    IF extended_hours
    THEN [order_type |-> "limit", limit_price |-> <<limit_price>>]
    ELSE [order_type |-> "market", limit_price |-> <<>>]

\* The call got to account_value = self.alpaca.get_account_value(): it did not
\* return at one of the three guards before it.
ReadsAccount(out) ==
    out.tag \notin {"trading_disabled", "already_owned", "max_positions"}

execute_buy_order(signal, enabled, current, cap, account_value, price, accepted, log_ok, update_ok) ==
    IF ~enabled THEN Rejected("trading_disabled")
    ELSE IF AlreadyOwned(current, signal.symbol) THEN Rejected("already_owned")
    ELSE IF AtMaxPositions(current, cap) THEN Rejected("max_positions")
    ELSE IF ~price.ok THEN Rejected("no_price")
    ELSE LET quantity == BuyQuantity(account_value, cap, price.v) IN
         IF quantity <= 0 THEN Rejected("insufficient_funds")
         ELSE IF ~accepted
              THEN Outcome("order_failed", TRUE, FALSE, quantity, price.v,
                           FALSE, FALSE, FALSE)
         ELSE IF ~log_ok
              THEN Outcome("error", TRUE, TRUE, quantity, price.v,
                           FALSE, FALSE, TRUE)
         ELSE IF ~update_ok
              THEN Outcome("error", TRUE, TRUE, quantity, price.v,
                           TRUE, FALSE, TRUE)
         ELSE Outcome("bought", TRUE, TRUE, quantity, price.v,
                      TRUE, TRUE, FALSE)

\* remove_position is called whatever order_result['success'] is.
execute_sell_order_removes(signal, enabled, accepted, log_ok, remove_ok) ==
    IF ~enabled THEN Rejected("trading_disabled")
    ELSE IF ~accepted
         THEN Outcome("order_failed", TRUE, FALSE, signal.quantity,
                      signal.current_price, FALSE, TRUE, FALSE)
    ELSE Outcome("sold", TRUE, TRUE, signal.quantity, signal.current_price,
                 TRUE, TRUE, FALSE)

execute_sell_order(signal, enabled, accepted, log_ok, remove_ok) ==
    IF ~enabled THEN Rejected("trading_disabled")
    ELSE IF ~accepted
         THEN Outcome("order_failed", TRUE, FALSE, signal.quantity,
                      signal.current_price, FALSE, FALSE, FALSE)
    ELSE IF ~log_ok
         THEN Outcome("error", TRUE, TRUE, signal.quantity,
                      signal.current_price, FALSE, FALSE, TRUE)
    ELSE IF ~remove_ok
         THEN Outcome("error", TRUE, TRUE, signal.quantity,
                      signal.current_price, TRUE, FALSE, TRUE)
    ELSE Outcome("sold", TRUE, TRUE, signal.quantity, signal.current_price,
                 TRUE, TRUE, FALSE)

(***************************************************************************)
(* The run                                                                 *)
(***************************************************************************)
NoLocals == <<>>

NoCall == [fn |-> "none"]

NoResult == [status |-> "none", signals_generated |-> 0, trades_executed |-> 0]

StartTables ==
    UNION {[S -> [quantity : HeldQuantity, avg_entry_price : HeldEntryPrice]]
           : S \in SUBSET Symbols}

Init ==
    /\ trading_enabled \in BOOLEAN
    /\ max_positions \in 1..MaxCap
    /\ positions \in StartTables
    /\ positions_at_start = positions
    /\ trades = <<>>
    /\ orders = <<>>
    /\ attempts = <<>>
    /\ buy_signals = <<>>
    /\ sell_signals = <<>>
    /\ i_sell = 1
    /\ i_buy = 1
    /\ trades_executed = 0
    /\ handed = <<>>
    /\ algorithm_runs = <<>>
    /\ result = NoResult
    /\ recorder_failed = FALSE
    /\ check_locals = NoLocals
    /\ call = NoCall
    /\ pc = "start"

\* if not is_market_open() and not self.allow_after_hours: return market_closed
\* (allow_after_hours is read here and nowhere else: it is drawn with the
\* market's answer)
MarketGate ==
    /\ pc = "start"
    /\ \E is_market_open \in BOOLEAN, allow_after_hours \in BOOLEAN :
          IF ~is_market_open /\ ~allow_after_hours
          THEN /\ result' = [NoResult EXCEPT !.status = "market_closed"]
               /\ pc' = "returned"
          ELSE /\ pc' = "generate"
               /\ UNCHANGED result
    /\ UNCHANGED <<call, trading_enabled, max_positions,
                   positions, positions_at_start, trades, orders, attempts,
                   buy_signals, sell_signals, i_sell, i_buy, trades_executed,
                   handed, algorithm_runs, recorder_failed, check_locals>>

\* Step 1: buy_signals = self.generate_daily_signals(run_date)
GenerateBuySignals ==
    /\ pc = "generate"
    /\ \E ranking \in Rankings :
       \E passed \in SUBSET Range(Head30(ranking)) :
       \E order \in Perms(passed) :
          buy_signals' = generate_daily_signals(ranking, order)
    /\ pc' = "check"
    /\ UNCHANGED <<call, trading_enabled, max_positions,
                   positions, positions_at_start, trades, orders, attempts,
                   sell_signals, i_sell, i_buy, trades_executed, handed,
                   algorithm_runs, result, recorder_failed, check_locals>>

\* Step 2: sell_signals = self.check_sell_signals(run_date), up to its return
CheckSellSignals ==
    /\ pc = "check"
    /\ \E db_ok \in BOOLEAN :
       \E ranking \in Rankings :
       \E price_of \in [Symbols -> PriceOpt] :
          LET current == get_current_positions(positions, db_ok) IN
          /\ sell_signals' = check_sell_signals(current, price_of, ranking)
          /\ check_locals' = <<[current_positions |-> current,
                                momentum_scores |-> ranking,
                                price_of |-> price_of]>>
    /\ pc' = "checked"
    /\ UNCHANGED <<call, trading_enabled, max_positions,
                   positions, positions_at_start, trades, orders, attempts,
                   buy_signals, i_sell, i_buy, trades_executed, handed,
                   algorithm_runs, result, recorder_failed>>

\* return sell_signals: the locals of check_sell_signals are gone
ReturnSellSignals ==
    /\ pc = "checked"
    /\ check_locals' = NoLocals
    /\ pc' = "execute"
    /\ UNCHANGED <<call, trading_enabled, max_positions,
                   positions, positions_at_start, trades, orders, attempts,
                   buy_signals, sell_signals, i_sell, i_buy, trades_executed,
                   handed, algorithm_runs, result, recorder_failed>>

\* order_result['error']: the message place_*_order returns with success False
\* (str(e) of what submit_order raised, or the adapter's own text).
BrokerMessage == "insufficient buying power"

OrderError(accepted) == IF accepted THEN None ELSE BrokerMessage

\* An except clause that takes nothing: the exception leaves execute_*_order.
OrderErrorEscapes(raised) == FALSE

\* except Exception as e: every exception of the body is taken.
OrderErrorCaught(raised) == raised

\* The two loops interleaved.
BuyLoopAnyTime == TRUE

\* The loop over buy_signals starts when the loop over sell_signals is over.
BuyLoopReached == i_sell > Len(sell_signals)

\* Step 3, one pass of: for sell_signal in sell_signals
ExecuteSell ==
    /\ pc = "execute"
    /\ trading_enabled
    /\ i_sell <= Len(sell_signals)
    /\ \E accepted \in BOOLEAN, log_ok \in BOOLEAN, remove_ok \in BOOLEAN :
       LET signal == sell_signals[i_sell]
           out == execute_sell_order(signal, trading_enabled, accepted,
                                     log_ok, remove_ok)
           pnl == (signal.current_price - signal.entry_price) * signal.quantity
       IN
       /\ attempts' = Append(attempts, [side |-> "SELL", index |-> i_sell,
                                       raised |-> out.raised,
                                       account_read |-> <<>>])
       /\ orders' = IF out.submitted
                    THEN Append(orders, [side |-> "SELL", index |-> i_sell,
                                         symbol |-> signal.symbol,
                                         quantity |-> out.quantity,
                                         accepted |-> out.accepted,
                                         error |-> OrderError(out.accepted)])
                    ELSE orders
       /\ trades' = IF out.trade_logged
                    THEN log_trade(trades, "SELL", signal.symbol, out.quantity,
                                   out.price, signal.entry_price,
                                   signal.reason, pnl)
                    ELSE trades
       /\ positions' = IF out.position_written
                       THEN remove_position(positions, signal.symbol)
                       ELSE positions
       /\ IF out.raised /\ ~OrderErrorCaught(out.raised)
          THEN /\ pc' = "handler"
               /\ UNCHANGED <<sell_signals, i_sell, trades_executed>>
          ELSE /\ sell_signals' =
                      [sell_signals EXCEPT ![i_sell].action_taken = out.tag]
               /\ i_sell' = i_sell + 1
               /\ trades_executed' = trades_executed + (IF out.ret THEN 1 ELSE 0)
               /\ pc' = "execute"
    /\ UNCHANGED <<call, trading_enabled, max_positions,
                   positions_at_start, buy_signals, i_buy, handed,
                   algorithm_runs, result, recorder_failed, check_locals>>

\* Step 3, one pass of: for buy_signal in buy_signals
ExecuteBuy ==
    /\ pc = "execute"
    /\ trading_enabled
    /\ BuyLoopReached
    /\ i_buy <= Len(buy_signals)
    /\ \E db_ok \in BOOLEAN, account_value \in AccountValues,
          price \in PriceOpt, accepted \in BOOLEAN, log_ok \in BOOLEAN,
          update_ok \in BOOLEAN :
       LET signal == buy_signals[i_buy]
           out == execute_buy_order(signal, trading_enabled,
                      get_current_positions(positions, db_ok), max_positions,
                      account_value, price, accepted, log_ok, update_ok)
       IN
       /\ attempts' = Append(attempts, [side |-> "BUY", index |-> i_buy,
                                       raised |-> out.raised,
                                       account_read |->
                                           IF ReadsAccount(out)
                                           THEN <<account_value>> ELSE <<>>])
       /\ orders' = IF out.submitted
                    THEN Append(orders, [side |-> "BUY", index |-> i_buy,
                                         symbol |-> signal.symbol,
                                         quantity |-> out.quantity,
                                         accepted |-> out.accepted,
                                         error |-> OrderError(out.accepted)])
                    ELSE orders
       /\ trades' = IF out.trade_logged
                    THEN log_trade(trades, "BUY", signal.symbol, out.quantity,
                                   out.price, 0, "algorithm", 0)
                    ELSE trades
       /\ positions' = IF out.position_written
                       THEN update_position(positions, signal.symbol,
                                            out.quantity, out.price)
                       ELSE positions
       /\ IF out.raised /\ ~OrderErrorCaught(out.raised)
          THEN /\ pc' = "handler"
               /\ UNCHANGED <<buy_signals, i_buy, trades_executed>>
          ELSE /\ buy_signals' =
                      [buy_signals EXCEPT ![i_buy].action_taken = out.tag]
               /\ i_buy' = i_buy + 1
               /\ trades_executed' = trades_executed + (IF out.ret THEN 1 ELSE 0)
               /\ pc' = "execute"
    /\ UNCHANGED <<call, trading_enabled, max_positions,
                   positions_at_start, sell_signals, i_sell, handed,
                   algorithm_runs, result, recorder_failed, check_locals>>

\* all_signals = buy_signals: the sell signals are left out.
AllSignalsBuysOnly(buys, sells) == buys

\* all_signals = buy_signals + sell_signals
AllSignals(buys, sells) == buys \o sells

\* Step 3 is over: the flag is off, or both loops are done.
ExecutionOver ==
    \/ ~trading_enabled
    \/ (i_sell > Len(sell_signals) /\ i_buy > Len(buy_signals))

\* Step 4: if all_signals: self.db.log_daily_signals(all_signals)
\* Step 5: self.db.log_algorithm_run(status='success', ...); return
\* Either call re-raises what sqlite raises, into the except clause.
LogSignalsAndRun ==
    /\ pc = "execute"
    /\ ExecutionOver
    /\ LET all_signals == AllSignals(buy_signals, sell_signals) IN
       /\ handed' = IF all_signals = <<>> THEN handed
                    ELSE Append(handed, all_signals)
       /\ \E signals_ok \in BOOLEAN, run_ok \in BOOLEAN :
             IF (all_signals = <<>> \/ signals_ok) /\ run_ok
             THEN /\ algorithm_runs' = log_algorithm_run(algorithm_runs,
                         "success", Len(all_signals), trades_executed)
                  /\ result' = [status |-> "success",
                                signals_generated |-> Len(all_signals),
                                trades_executed |-> trades_executed]
                  /\ pc' = "returned"
                  /\ UNCHANGED recorder_failed
             ELSE /\ pc' = "handler"
                  /\ recorder_failed' = TRUE
                  /\ UNCHANGED <<algorithm_runs, result>>
    /\ UNCHANGED <<call, trading_enabled, max_positions,
                   positions, positions_at_start, trades, orders, attempts,
                   buy_signals, sell_signals, i_sell, i_buy, trades_executed,
                   check_locals>>

\* except Exception as e: self.db.log_algorithm_run(status='error', ...); return
\* log_algorithm_run re-raises what sqlite raises, and nothing catches it here.
RunErrorHandler ==
    /\ pc = "handler"
    /\ \E db_ok \in BOOLEAN :
          IF db_ok
          THEN /\ algorithm_runs' = log_algorithm_run(algorithm_runs,
                                        "error", 0, 0)
               /\ result' = [NoResult EXCEPT !.status = "error"]
               /\ pc' = "returned"
               /\ UNCHANGED recorder_failed
          ELSE /\ pc' = "raised"
               /\ recorder_failed' = TRUE
               /\ UNCHANGED <<algorithm_runs, result>>
    /\ UNCHANGED <<call, trading_enabled, max_positions,
                   positions, positions_at_start, trades, orders, attempts,
                   buy_signals, sell_signals, i_sell, i_buy, trades_executed,
                   handed, check_locals>>

Next ==
    \/ MarketGate
    \/ GenerateBuySignals
    \/ CheckSellSignals
    \/ ReturnSellSignals
    \/ ExecuteSell
    \/ ExecuteBuy
    \/ LogSignalsAndRun
    \/ RunErrorHandler

Spec == Init /\ [][Next]_vars

(***************************************************************************)
(* Methods called on their own, as test_algorithm.py and simple_test.py    *)
(* call them: the arguments (and what the collaborators answer) are drawn  *)
(* when the call is set up, and call keeps what the method returned.       *)
(***************************************************************************)
MaxCalls == 2
MaxUniverse == 32
MaxSeriesLen == 100
MaxColumns == 3

MinHistory == 252
MacdFast == 12
MacdSlow == 26
MacdSignal == 9
RsiPeriod == 14

Reverse(s) == [i \in 1..Len(s) |-> s[Len(s) + 1 - i]]

\* A ranking of a universe of n symbols, symbol 1 best or symbol n best.
Ascending(n) == [i \in 1..n |-> i]
UniverseRankings ==
    {Ascending(n) : n \in 0..MaxUniverse}
    \cup {Reverse(Ascending(n)) : n \in 0..MaxUniverse}

(***************************************************************************)
(* TradingAlgorithm.calculate_momentum_12_1.  market_data is the sequence  *)
(* of the DataFrame's columns (column k is symbol k); of a column the      *)
(* method reads its length after dropna() and three prices.                *)
(***************************************************************************)
Column ==
    [len : {MinHistory - 1, MinHistory}, last : {1, 2}, back252 : {1},
     back21 : {1, 2}]

MarketData == UNION {[1..n -> Column] : n \in 0..MaxColumns}

\* momentum_12_1 = (current_price - price_12m_ago) / price_12m_ago
\*               - (current_price - price_1m_ago) / price_1m_ago
\* as the fraction ScoreNum / ScoreDen (prices are positive).
ScoreNum(column) ==
    (column.last - column.back252) * column.back21
    - (column.last - column.back21) * column.back252

ScoreDen(column) == column.back252 * column.back21

HigherScore(x, y) == ScoreNum(x) * ScoreDen(y) > ScoreNum(y) * ScoreDen(x)

\* The keys of momentum_scores: if len(prices) < 252: continue
Scored(market_data) ==
    {k \in DOMAIN market_data : ~(market_data[k].len < MinHistory)}

\* pd.Series(momentum_scores).sort_values(ascending=False): the default
\* kind='quicksort' is not a stable sort, so equal scores come in any order.
SortValuesDescending(market_data) ==
    {p \in Perms(Scored(market_data)) :
        \A i, j \in 1..Len(p) :
            i < j => ~HigherScore(market_data[p[j]], market_data[p[i]])}

(***************************************************************************)
(* MarketDataService.calculate_macd / calculate_rsi, as far as whether     *)
(* they return a DataFrame: of price_data they read len() here.  ewm()     *)
(* raises for a span below 1 and rolling() for a negative window; the      *)
(* except clause turns that into None.                                     *)
(***************************************************************************)
DataFrame == "DataFrame"

\* The length guard with <= for <.
calculate_macd_inclusive(len, fast, slow, signal) ==
    IF len <= slow + signal THEN None
    ELSE IF fast < 1 \/ slow < 1 \/ signal < 1 THEN None
    ELSE DataFrame

calculate_macd(len, fast, slow, signal) ==
    IF len < slow + signal THEN None
    ELSE IF fast < 1 \/ slow < 1 \/ signal < 1 THEN None
    ELSE DataFrame

calculate_rsi(len, period) ==
    IF len < period + 1 THEN None
    ELSE IF period < 0 THEN None
    ELSE DataFrame

MacdParams ==
    {[fast |-> MacdFast, slow |-> MacdSlow, signal |-> MacdSignal],
     [fast |-> 3, slow |-> 6, signal |-> 2]}

RsiParams == {RsiPeriod, 2}

(***************************************************************************)
(* The calls                                                               *)
(***************************************************************************)
\* What the MACD/RSI filter of generate_daily_signals answers per symbol.
FilterKinds == {"all", "none", "odd"}

FilterPass(kind, symbol) ==
    CASE kind = "all" -> TRUE
      [] kind = "none" -> FALSE
      [] kind = "odd" -> symbol % 2 = 1

\* What calculate_macd and calculate_rsi give for a symbol: None, or a
\* frame ending in the two values (MACD around 0, RSI around 30 and 50).
Unavailable == [available |-> FALSE, prev |-> 0, current |-> 0]

Frame(tail) == [available |-> TRUE, prev |-> tail[1], current |-> tail[2]]

MacdData ==
    {Unavailable} \cup
    {Frame(t) : t \in {<<0, 1>>, <<1, 2>>, <<2, 1>>, <<-2, -1>>}}

RsiData ==
    {Unavailable} \cup
    {Frame(t) : t \in {<<50, 51>>, <<30, 31>>, <<51, 52>>, <<29, 30>>}}

\* if macd_data is None or rsi_data is None: continue, else filters_ok
PassesFilters(c, symbol) ==
    IF c.filter \in FilterKinds THEN FilterPass(c.filter, symbol)
    ELSE /\ c.macd_data[symbol].available
         /\ c.rsi_data[symbol].available
         /\ filters_ok(check_macd_bullish(c.macd_data[symbol]),
                       check_rsi_bullish(c.rsi_data[symbol]),
                       c.relaxed_filters)

SizingAccountValues == {0, 50, 1000, 1050}
SizingPrices == {30, 100, 101}
SizingPriceOpt == {NoPrice} \cup {[ok |-> TRUE, v |-> p] : p \in SizingPrices}

CheckCalls ==
    [fn : {"check_sell_signals"}, price_of : [Symbols -> PriceOpt],
     momentum_scores : Rankings \cup UniverseRankings,
     reads : {<<>>}, returned : {<<>>}]

GenerateCalls ==
    [fn : {"generate_daily_signals"}, momentum_scores : UniverseRankings,
     filter : FilterKinds, weakest_first : BOOLEAN, done : {FALSE},
     evaluated : {<<>>}, returned : {<<>>}]

\* generate_daily_signals on a few symbols with their indicators given.
IndicatorCalls ==
    [fn : {"generate_daily_signals"}, momentum_scores : Rankings,
     filter : {"indicators"}, weakest_first : BOOLEAN, done : {FALSE},
     evaluated : {<<>>}, returned : {<<>>},
     macd_data : [Symbols -> MacdData], rsi_data : [Symbols -> RsiData],
     relaxed_filters : BOOLEAN]

MomentumCalls ==
    [fn : {"calculate_momentum_12_1"}, market_data : MarketData,
     done : {FALSE}, returned : {<<>>}]

MacdCalls ==
    [fn : {"calculate_macd"}, len : 0..MaxSeriesLen, params : MacdParams,
     done : {FALSE}, returned : {None}]

RsiCalls ==
    [fn : {"calculate_rsi"}, len : 0..MaxSeriesLen, period : RsiParams,
     done : {FALSE}, returned : {None}]

BuyCalls ==
    [fn : {"execute_buy_order"}, symbol : Symbols, db_ok : BOOLEAN,
     account_value : SizingAccountValues, price : SizingPriceOpt,
     extended_hours : BOOLEAN,
     accepted : BOOLEAN, log_ok : BOOLEAN, update_ok : BOOLEAN,
     done : {FALSE}, returned : {Rejected(None)}]

SellCalls ==
    [fn : {"execute_sell_order"}, symbol : Symbols,
     reason : {"stop_loss", "momentum_exit"}, current_price : SizingPrices,
     extended_hours : BOOLEAN,
     accepted : BOOLEAN, log_ok : BOOLEAN, remove_ok : BOOLEAN,
     done : {FALSE}, returned : {Rejected(None)}]

UsesTables(fn) ==
    fn \in {"check_sell_signals", "execute_buy_order", "execute_sell_order"}

CallInit ==
    /\ \/ call \in CheckCalls
       \/ call \in GenerateCalls
       \/ call \in IndicatorCalls
       \/ call \in MomentumCalls
       \/ call \in MacdCalls
       \/ call \in RsiCalls
       \/ call \in BuyCalls
       \/ call \in SellCalls
    /\ trading_enabled = TRUE
    /\ max_positions \in (IF call.fn = "execute_buy_order"
                          THEN 1..MaxCap ELSE {1})
    /\ positions \in (IF UsesTables(call.fn) THEN StartTables ELSE {<<>>})
    \* a sell signal is made from a row of the positions table
    /\ call.fn = "execute_sell_order" => call.symbol \in DOMAIN positions
    /\ positions_at_start = positions
    /\ trades = <<>>
    /\ orders = <<>>
    /\ attempts = <<>>
    /\ buy_signals = <<>>
    /\ sell_signals = <<>>
    /\ i_sell = 1
    /\ i_buy = 1
    /\ trades_executed = 0
    /\ handed = <<>>
    /\ algorithm_runs = <<>>
    /\ result = NoResult
    /\ recorder_failed = FALSE
    /\ check_locals = NoLocals
    /\ pc = "call"

\* What a call of a method that only reads leaves alone.
tables == <<positions, trades, orders>>

run_state ==
    <<trading_enabled, max_positions, positions_at_start, attempts,
      buy_signals, sell_signals, i_sell, i_buy, trades_executed, handed,
      algorithm_runs, result, recorder_failed, check_locals, pc>>

\* sell_signals = trading_algorithm.check_sell_signals(test_date), up to
\* MaxCalls times with the prices and the ranking of the first call; each
\* call reads the positions table anew.
CallCheckSellSignals ==
    /\ pc = "call"
    /\ call.fn = "check_sell_signals"
    /\ Len(call.returned) < MaxCalls
    /\ \E db_ok \in BOOLEAN :
          LET current == get_current_positions(positions, db_ok) IN
          call' = [call EXCEPT
                      !.reads = Append(@, current),
                      !.returned = Append(@, check_sell_signals(current,
                                       call.price_of, call.momentum_scores))]
    /\ UNCHANGED <<tables, run_state>>

\* signals = trading_algorithm.generate_daily_signals(test_date)
CallGenerateDailySignals ==
    /\ pc = "call"
    /\ call.fn = "generate_daily_signals"
    /\ ~call.done
    /\ LET ranking == call.momentum_scores
           top_momentum == Head30(ranking)
           passed == SelectSeq(top_momentum,
                               LAMBDA symbol : PassesFilters(call, symbol))
           order == IF call.weakest_first THEN Reverse(passed) ELSE passed
       IN  call' = [call EXCEPT
                       !.done = TRUE,
                       !.evaluated = top_momentum,
                       !.returned = generate_daily_signals(ranking, order)]
    /\ UNCHANGED <<tables, run_state>>

\* momentum_scores = self.calculate_momentum_12_1(market_data)
CallCalculateMomentum ==
    /\ pc = "call"
    /\ call.fn = "calculate_momentum_12_1"
    /\ ~call.done
    /\ \E momentum_series \in SortValuesDescending(call.market_data) :
          call' = [call EXCEPT !.done = TRUE, !.returned = momentum_series]
    /\ UNCHANGED <<tables, run_state>>

\* macd_data = market_data.calculate_macd(sample_prices)
CallCalculateMacd ==
    /\ pc = "call"
    /\ call.fn = "calculate_macd"
    /\ ~call.done
    /\ call' = [call EXCEPT
                   !.done = TRUE,
                   !.returned = calculate_macd(call.len, call.params.fast,
                                    call.params.slow, call.params.signal)]
    /\ UNCHANGED <<tables, run_state>>

\* rsi_data = market_data.calculate_rsi(sample_prices)
CallCalculateRsi ==
    /\ pc = "call"
    /\ call.fn = "calculate_rsi"
    /\ ~call.done
    /\ call' = [call EXCEPT
                   !.done = TRUE,
                   !.returned = calculate_rsi(call.len, call.period)]
    /\ UNCHANGED <<tables, run_state>>

\* self.execute_buy_order(buy_signal), for a signal of the called symbol
CallExecuteBuyOrder ==
    /\ pc = "call"
    /\ call.fn = "execute_buy_order"
    /\ ~call.done
    /\ \E limit_price \in Round2(BuyLimit(call.price.v)) :
       LET signal == BuySignal(call.symbol, 1)
           out == execute_buy_order(signal, trading_enabled,
                      get_current_positions(positions, call.db_ok),
                      max_positions, call.account_value, call.price,
                      call.accepted, call.log_ok, call.update_ok)
           request == OrderRequest(call.extended_hours, limit_price)
       IN  /\ call' = [call EXCEPT !.done = TRUE, !.returned = out]
           /\ orders' = IF out.submitted
                        THEN Append(orders, [side |-> "BUY", index |-> 1,
                                             symbol |-> signal.symbol,
                                             quantity |-> out.quantity,
                                             order_type |-> request.order_type,
                                             limit_price |-> request.limit_price,
                                             accepted |-> out.accepted,
                                             error |-> OrderError(out.accepted)])
                        ELSE orders
           /\ trades' = IF out.trade_logged
                        THEN log_trade(trades, "BUY", signal.symbol,
                                       out.quantity, out.price, 0,
                                       "algorithm", 0)
                        ELSE trades
           /\ positions' = IF out.position_written
                           THEN update_position(positions, signal.symbol,
                                                out.quantity, out.price)
                           ELSE positions
    /\ UNCHANGED run_state

\* self.execute_sell_order(sell_signal), for a signal made from the row of
\* the called symbol
CallExecuteSellOrder ==
    /\ pc = "call"
    /\ call.fn = "execute_sell_order"
    /\ ~call.done
    /\ \E limit_price \in Round2(SellLimit(call.current_price)) :
       LET position == [symbol |-> call.symbol,
                        quantity |-> positions[call.symbol].quantity,
                        entry_price |->
                            positions[call.symbol].avg_entry_price]
           signal == SellSignal(position, call.reason, call.current_price,
                                UnrankedRank)
           out == execute_sell_order(signal, trading_enabled, call.accepted,
                                     call.log_ok, call.remove_ok)
           request == OrderRequest(call.extended_hours, limit_price)
           pnl == (signal.current_price - signal.entry_price) * signal.quantity
       IN  /\ call' = [call EXCEPT !.done = TRUE, !.returned = out]
           /\ orders' = IF out.submitted
                        THEN Append(orders, [side |-> "SELL", index |-> 1,
                                             symbol |-> signal.symbol,
                                             quantity |-> out.quantity,
                                             order_type |-> request.order_type,
                                             limit_price |-> request.limit_price,
                                             accepted |-> out.accepted,
                                             error |-> OrderError(out.accepted)])
                        ELSE orders
           /\ trades' = IF out.trade_logged
                        THEN log_trade(trades, "SELL", signal.symbol,
                                       out.quantity, out.price,
                                       signal.entry_price, signal.reason, pnl)
                        ELSE trades
           /\ positions' = IF out.position_written
                           THEN remove_position(positions, signal.symbol)
                           ELSE positions
    /\ UNCHANGED run_state

CallNext ==
    \/ CallCheckSellSignals
    \/ CallGenerateDailySignals
    \/ CallCalculateMomentum
    \/ CallCalculateMacd
    \/ CallCalculateRsi
    \/ CallExecuteBuyOrder
    \/ CallExecuteSellOrder

CallSpec == CallInit /\ [][CallNext]_vars

(***************************************************************************)
(* Two overlapping runs                                                    *)
(*                                                                         *)
(* app.py makes one TradingAlgorithm (line 68); the BackgroundScheduler's  *)
(* job_wrapper calls its run_daily_algorithm on a scheduler thread and the *)
(* /api/algorithm/run route calls it on a request thread, with no lock in  *)
(* app.py or in TradingAlgorithm.  Each run has its own locals (signals,   *)
(* loop index, the rows it read); the positions and trades tables and the  *)
(* brokerage are shared.  A run yields to the other at its collaborator    *)
(* calls: the read of the positions, the order, log_trade and              *)
(* update_position, each sqlite call being a connection and a commit of    *)
(* its own.  Trading is enabled, the market is open, nothing is to be sold *)
(* and sqlite does not fail.                                               *)
(***************************************************************************)
Runs == {"scheduled", "manual"}

IdleRun ==
    [at |-> "idle", buy_signals |-> <<>>, i_buy |-> 1,
     current_positions |-> <<>>, quantity |-> 0, price |-> 0,
     trades_executed |-> 0]

OverlapInit ==
    /\ call = [fn |-> "overlap", run |-> [r \in Runs |-> IdleRun]]
    /\ trading_enabled = TRUE
    /\ max_positions \in 1..MaxCap
    /\ positions \in {t \in StartTables :
                          Cardinality(DOMAIN t) <= max_positions}
    /\ positions_at_start = positions
    /\ trades = <<>>
    /\ orders = <<>>
    /\ attempts = <<>>
    /\ buy_signals = <<>>
    /\ sell_signals = <<>>
    /\ i_sell = 1
    /\ i_buy = 1
    /\ trades_executed = 0
    /\ handed = <<>>
    /\ algorithm_runs = <<>>
    /\ result = NoResult
    /\ recorder_failed = FALSE
    /\ check_locals = NoLocals
    /\ pc = "overlap"

overlap_frame ==
    <<trading_enabled, max_positions, positions_at_start, attempts,
      buy_signals, sell_signals, i_sell, i_buy, trades_executed, handed,
      result, recorder_failed, check_locals, pc>>

\* The run's signal gets its tag and the loop goes to the next signal.
NextSignal(run, tag, executed) ==
    [run EXCEPT !.at = "loop",
                !.buy_signals[run.i_buy].action_taken = tag,
                !.i_buy = @ + 1,
                !.trades_executed = @ + (IF executed THEN 1 ELSE 0)]

\* job_wrapper / run_algorithm: run_daily_algorithm up to the buy loop
OverlapStart ==
    \E r \in Runs, momentum_scores \in Rankings :
        /\ call.run[r].at = "idle"
        /\ call' = [call EXCEPT
                        !.run[r].at = "loop",
                        !.run[r].buy_signals =
                            generate_daily_signals(momentum_scores,
                                                   Head30(momentum_scores))]
        /\ UNCHANGED <<tables, algorithm_runs, overlap_frame>>

\* execute_buy_order: current_positions = self.db.get_current_positions()
\* and the two guards on the rows read
OverlapReadPositions ==
    \E r \in Runs :
        LET run == call.run[r]
            signal == run.buy_signals[run.i_buy]
            current == get_current_positions(positions, TRUE)
        IN  /\ run.at = "loop"
            /\ run.i_buy <= Len(run.buy_signals)
            /\ call' = [call EXCEPT !.run[r] =
                    IF AlreadyOwned(current, signal.symbol)
                    THEN NextSignal(run, "already_owned", FALSE)
                    ELSE IF AtMaxPositions(current, max_positions)
                    THEN NextSignal(run, "max_positions", FALSE)
                    ELSE [run EXCEPT !.at = "order",
                                     !.current_positions = current]]
            /\ UNCHANGED <<tables, algorithm_runs, overlap_frame>>

\* execute_buy_order: get_account_value, get_current_price, the quantity
\* and self.alpaca.place_buy_order
OverlapPlaceOrder ==
    \E r \in Runs, account_value \in AccountValues, price \in PriceOpt,
       accepted \in BOOLEAN :
        LET run == call.run[r]
            signal == run.buy_signals[run.i_buy]
            quantity == BuyQuantity(account_value, max_positions, price.v)
        IN  /\ run.at = "order"
            /\ IF ~price.ok
               THEN /\ call' = [call EXCEPT !.run[r] =
                                    NextSignal(run, "no_price", FALSE)]
                    /\ UNCHANGED orders
               ELSE IF quantity <= 0
               THEN /\ call' = [call EXCEPT !.run[r] =
                                    NextSignal(run, "insufficient_funds",
                                               FALSE)]
                    /\ UNCHANGED orders
               ELSE /\ orders' = Append(orders,
                                        [run |-> r, side |-> "BUY",
                                         symbol |-> signal.symbol,
                                         quantity |-> quantity,
                                         accepted |-> accepted])
                    /\ call' = [call EXCEPT !.run[r] =
                                    IF accepted
                                    THEN [run EXCEPT !.at = "log_trade",
                                                     !.quantity = quantity,
                                                     !.price = price.v]
                                    ELSE NextSignal(run, "order_failed",
                                                    FALSE)]
            /\ UNCHANGED <<positions, trades, algorithm_runs, overlap_frame>>

\* execute_buy_order: self.db.log_trade(...)
OverlapLogTrade ==
    \E r \in Runs :
        LET run == call.run[r]
            signal == run.buy_signals[run.i_buy]
        IN  /\ run.at = "log_trade"
            /\ trades' = log_trade(trades, "BUY", signal.symbol,
                                   run.quantity, run.price, 0, "algorithm", 0)
            /\ call' = [call EXCEPT !.run[r].at = "update_position"]
            /\ UNCHANGED <<positions, orders, algorithm_runs, overlap_frame>>

\* execute_buy_order: self.db.update_position(...), the tag, return True
OverlapUpdatePosition ==
    \E r \in Runs :
        LET run == call.run[r]
            signal == run.buy_signals[run.i_buy]
        IN  /\ run.at = "update_position"
            /\ positions' = update_position(positions, signal.symbol,
                                            run.quantity, run.price)
            /\ call' = [call EXCEPT !.run[r] =
                            NextSignal(run, "bought", TRUE)]
            /\ UNCHANGED <<trades, orders, algorithm_runs, overlap_frame>>

\* run_daily_algorithm after the loops: log_daily_signals, log_algorithm_run
OverlapFinish ==
    \E r \in Runs :
        LET run == call.run[r] IN
        /\ run.at = "loop"
        /\ run.i_buy > Len(run.buy_signals)
        /\ algorithm_runs' = log_algorithm_run(algorithm_runs, "success",
                                 Len(run.buy_signals), run.trades_executed)
        /\ call' = [call EXCEPT !.run[r].at = "returned"]
        /\ UNCHANGED <<tables, overlap_frame>>

OverlapNext ==
    \/ OverlapStart
    \/ OverlapReadPositions
    \/ OverlapPlaceOrder
    \/ OverlapLogTrade
    \/ OverlapUpdatePosition
    \/ OverlapFinish

OverlapSpec == OverlapInit /\ [][OverlapNext]_vars

(***************************************************************************)
(* Properties                                                              *)
(***************************************************************************)
TerminalTags ==
    {"trading_disabled", "already_owned", "max_positions", "no_price",
     "insufficient_funds", "order_failed", "error", "bought", "sold"}

SignalOf(attempt) ==
    IF attempt.side = "SELL" THEN sell_signals[attempt.index]
    ELSE buy_signals[attempt.index]

\* The run is past Step 3 (it did not stop at the market gate).
PastExecution ==
    pc \in {"handler", "returned", "raised"} /\ result.status # "market_closed"

RunEnded == pc \in {"returned", "raised"} /\ result.status # "market_closed"

\* This step is a call of execute_buy_order, on buy_signals[i_buy].
BuyStep ==
    /\ Len(attempts') = Len(attempts) + 1
    /\ attempts'[Len(attempts')].side = "BUY"

AttemptedBefore(side, index, k) ==
    \E j \in 1..(k - 1) : attempts[j].side = side /\ attempts[j].index = index

\* C1: with trading enabled, every execute_sell_order attempt of the run (one
\* for each sell signal) happens before the first execute_buy_order attempt.
C1_SellsBeforeBuys ==
    trading_enabled =>
        \A k \in 1..Len(attempts) :
            attempts[k].side = "BUY" =>
                /\ \A j \in 1..Len(attempts) :
                       attempts[j].side = "SELL" => j < k
                /\ \A i \in 1..Len(sell_signals) : AttemptedBefore("SELL", i, k)

C1_Witness ==
    /\ trading_enabled
    /\ \E j, k \in 1..Len(attempts) :
           attempts[j].side = "SELL" /\ attempts[k].side = "BUY"

\* C2: if at most max_positions positions are open when the run starts, the
\* number of open positions never exceeds max_positions during the run.
C2_NeverOverMaxPositions ==
    Cardinality(OpenSymbols(positions_at_start)) <= max_positions
        => Cardinality(OpenSymbols(positions)) <= max_positions

C3_Step ==
    /\ \A i \in 1..Len(buy_signals) :
           buy_signals[i].action_taken # None =>
               buy_signals'[i].action_taken = buy_signals[i].action_taken
    /\ \A i \in 1..Len(sell_signals) :
           sell_signals[i].action_taken # None =>
               sell_signals'[i].action_taken = sell_signals[i].action_taken
    /\ \A i \in 1..Len(buy_signals') :
           buy_signals'[i].action_taken \in TerminalTags \cup {None}
    /\ \A i \in 1..Len(sell_signals') :
           sell_signals'[i].action_taken \in TerminalTags \cup {None}
    /\ \A a, b \in 1..Len(orders') :
           (orders'[a].side = orders'[b].side
            /\ orders'[a].index = orders'[b].index) => a = b
    /\ PastExecution' =>
           /\ \A i \in 1..Len(buy_signals') :
                  buy_signals'[i].action_taken \in TerminalTags
           /\ \A i \in 1..Len(sell_signals') :
                  sell_signals'[i].action_taken \in TerminalTags

\* C3: within one run each signal's action_taken goes from None to exactly
\* one terminal tag: a tag once set never changes, no signal is submitted to
\* the brokerage twice, and when Step 3 is over every signal carries a tag.
C3_OneTerminalTag == [][C3_Step]_vars

\* C3, the part that does not depend on the flag: tags are set once, and a
\* signal is submitted at most once.
C3_TagsSetOnce ==
    [][/\ \A i \in 1..Len(buy_signals) :
             buy_signals[i].action_taken # None =>
                 buy_signals'[i].action_taken = buy_signals[i].action_taken
       /\ \A i \in 1..Len(sell_signals) :
             sell_signals[i].action_taken # None =>
                 sell_signals'[i].action_taken = sell_signals[i].action_taken
       /\ \A a, b \in 1..Len(orders') :
             (orders'[a].side = orders'[b].side
              /\ orders'[a].index = orders'[b].index) => a = b]_vars

NothingTraded ==
    orders = <<>> /\ trades = <<>> /\ positions = positions_at_start

SignalsHanded ==
    buy_signals \o sell_signals # <<>> =>
        handed = <<buy_signals \o sell_signals>>

C5_DisabledSignalsTagged ==
    ~trading_enabled =>
        \A k \in 1..Len(handed) : \A i \in 1..Len(handed[k]) :
            handed[k][i].action_taken = "trading_disabled"

\* C6: a BUY for a symbol that is not held, while the open-position count is
\* at least max_positions, is tagged max_positions, submits no order and
\* leaves trades and positions unchanged.
C6_MaxPositionsRejects ==
    [][(/\ BuyStep
        /\ buy_signals[i_buy].symbol \notin OpenSymbols(positions)
        /\ Cardinality(OpenSymbols(positions)) >= max_positions)
       => (/\ buy_signals'[i_buy].action_taken = "max_positions"
           /\ orders' = orders
           /\ trades' = trades
           /\ positions' = positions)]_vars

\* C7: a BUY for a symbol that is held (from before the run, or from a buy
\* filled earlier in it) is tagged already_owned and submits no order, also
\* when the open-position count has reached max_positions.
C7_AlreadyOwnedRejects ==
    [][(/\ BuyStep
        /\ \/ buy_signals[i_buy].symbol \in OpenSymbols(positions)
           \/ \E o \in 1..Len(orders) :
                  /\ orders[o].side = "BUY"
                  /\ orders[o].accepted
                  /\ orders[o].symbol = buy_signals[i_buy].symbol)
       => (/\ buy_signals'[i_buy].action_taken = "already_owned"
           /\ orders' = orders)]_vars

SignalsFor(symbol) ==
    {i \in 1..Len(sell_signals) : sell_signals[i].symbol = symbol}

\* Both exit conditions hold for row k of current_positions.
BothExitsHold(k) ==
    LET locals == check_locals[1]
        position == locals.current_positions[k]
        price == locals.price_of[position.symbol]
    IN  /\ price.ok
        /\ StopLossHit(position.entry_price, price.v)
        /\ position.symbol \notin Range(Head30(locals.momentum_scores))

\* C8: check_sell_signals returns at most one SELL per held symbol, and none
\* for another symbol; where the stop-loss and the momentum-exit condition
\* both hold, the one signal of the symbol has reason stop_loss.
C8_OneSellPerSymbol ==
    pc = "checked" =>
        LET current == check_locals[1].current_positions IN
        /\ \A s \in Symbols : Cardinality(SignalsFor(s)) <= 1
        /\ \A i \in 1..Len(sell_signals) :
               \E k \in 1..Len(current) :
                   current[k].symbol = sell_signals[i].symbol
        /\ \A k \in 1..Len(current) :
               BothExitsHold(k) =>
                   \E i \in 1..Len(sell_signals) :
                       /\ SignalsFor(current[k].symbol) = {i}
                       /\ sell_signals[i].reason = "stop_loss"

C8_Witness ==
    /\ pc = "checked"
    /\ \E k \in 1..Len(check_locals[1].current_positions) : BothExitsHold(k)

\* C9: an exception raised while one signal is handled tags that signal error
\* and does not end the run: every signal of the sell list and of the buy
\* list is attempted.
C9_ErrorDoesNotAbort ==
    /\ \A k \in 1..Len(attempts) :
           attempts[k].raised => SignalOf(attempts[k]).action_taken = "error"
    /\ (trading_enabled /\ PastExecution) =>
           /\ \A i \in 1..Len(sell_signals) :
                  AttemptedBefore("SELL", i, Len(attempts) + 1)
           /\ \A i \in 1..Len(buy_signals) :
                  AttemptedBefore("BUY", i, Len(attempts) + 1)

C9_Witness ==
    /\ pc = "returned"
    /\ result.status = "success"
    /\ \E k \in 1..Len(attempts) :
           /\ attempts[k].raised
           /\ \E j \in (k + 1)..Len(attempts) : attempts[j].side = "SELL"
           /\ \E j \in (k + 1)..Len(attempts) : attempts[j].side = "BUY"

\* C10: run_daily_algorithm never lets an exception out: it returns a result
\* whose status is success, market_closed or error.
C10_NeverPropagates ==
    /\ pc # "raised"
    /\ pc = "returned" =>
           result.status \in {"success", "market_closed", "error"}

StopLossFirst(signals) ==
    \A i, j \in 1..Len(signals) :
        (signals[i].reason = "stop_loss" /\ signals[j].reason = "momentum_exit")
            => i < j

\* C15: check_sell_signals returns every stop_loss signal ahead of every
\* momentum_exit signal, and with trading enabled each stop_loss SELL is
\* attempted before any momentum_exit SELL is.
C15_StopLossFirst ==
    /\ StopLossFirst(sell_signals)
    /\ trading_enabled =>
           \A k \in 1..Len(attempts) :
               (/\ attempts[k].side = "SELL"
                /\ sell_signals[attempts[k].index].reason = "momentum_exit")
               => \A i \in 1..Len(sell_signals) :
                      sell_signals[i].reason = "stop_loss"
                          => AttemptedBefore("SELL", i, k)

\* A stop_loss for a later row of current_positions is attempted before the
\* momentum_exit of an earlier row.
C15_Witness ==
    /\ trading_enabled
    /\ \E j, k \in 1..Len(attempts) :
           /\ j < k
           /\ attempts[j].side = "SELL"
           /\ attempts[k].side = "SELL"
           /\ sell_signals[attempts[j].index].reason = "stop_loss"
           /\ sell_signals[attempts[k].index].reason = "momentum_exit"
           /\ sell_signals[attempts[j].index].symbol
                  > sell_signals[attempts[k].index].symbol

\* This step is a call of execute_*_order that placed an order the brokerage
\* accepted.
OrderAccepted(side) ==
    /\ Len(attempts') = Len(attempts) + 1
    /\ attempts'[Len(attempts')].side = side
    /\ Len(orders') = Len(orders) + 1
    /\ orders'[Len(orders')].accepted

OneTradeLogged == Len(trades') = Len(trades) + 1

BoughtAndRecorded ==
    LET order == orders'[Len(orders')]
        trade == trades'[Len(trades')]
        symbol == buy_signals[i_buy].symbol
    IN  /\ OneTradeLogged
        /\ trade.action = "BUY"
        /\ trade.symbol = symbol
        /\ trade.quantity = order.quantity
        /\ order.quantity > 0
        /\ symbol \in DOMAIN positions'
        /\ positions'[symbol].quantity = order.quantity
        /\ positions'[symbol].avg_entry_price = trade.price
        /\ buy_signals'[i_buy].action_taken = "bought"
        /\ trades_executed' = trades_executed + 1

NewlyBought ==
    \E i \in 1..Len(buy_signals) :
        /\ buy_signals[i].action_taken # "bought"
        /\ buy_signals'[i].action_taken = "bought"

\* C18: when the brokerage accepts a buy order, execute_buy_order records one
\* BUY trade, stores the position with the ordered quantity (> 0) at the
\* current price, tags the signal bought and returns true; a signal is tagged
\* bought only then.
C18_AcceptedBuyRecorded ==
    [][/\ OrderAccepted("BUY") => BoughtAndRecorded
       /\ NewlyBought => OrderAccepted("BUY")]_vars

\* C18 where log_trade and update_position do not raise.
C18_WhenPersisted ==
    [][/\ (OrderAccepted("BUY") /\ ~attempts'[Len(attempts')].raised)
              => BoughtAndRecorded
       /\ NewlyBought => OrderAccepted("BUY")]_vars

SoldAndRecorded ==
    LET order == orders'[Len(orders')]
        trade == trades'[Len(trades')]
        signal == sell_signals[i_sell]
        held == positions[signal.symbol]
    IN  /\ order.quantity = held.quantity
        /\ OneTradeLogged
        /\ trade.action = "SELL"
        /\ trade.symbol = signal.symbol
        /\ trade.quantity = held.quantity
        /\ trade.reason = signal.reason
        /\ trade.pnl = (signal.current_price - held.avg_entry_price)
                           * held.quantity
        /\ signal.symbol \notin DOMAIN positions'
        /\ \A k \in 1..Len(get_current_positions(positions', TRUE)) :
               get_current_positions(positions', TRUE)[k].symbol # signal.symbol
        /\ sell_signals'[i_sell].action_taken = "sold"

\* C19: when the brokerage accepts a sell order, execute_sell_order sells the
\* whole held quantity, records one SELL trade with
\* pnl = (current_price - entry_price) * quantity and the signal's reason,
\* removes the position's row, and tags the signal sold.
C19_AcceptedSellRecorded ==
    [][OrderAccepted("SELL") => SoldAndRecorded]_vars

\* C19 where log_trade and remove_position do not raise.
C19_WhenPersisted ==
    [][(OrderAccepted("SELL") /\ ~attempts'[Len(attempts')].raised)
           => SoldAndRecorded]_vars

\* The text a signal dict carries.
SignalTexts(signal) == {signal.side, signal.reason, signal.action_taken}

RejectedOrders == {o \in 1..Len(orders) : ~orders[o].accepted}

OrderSignal(o) ==
    IF orders[o].side = "SELL" THEN sell_signals[orders[o].index]
    ELSE buy_signals[orders[o].index]

\* C20: a signal whose order the brokerage rejected is tagged order_failed,
\* and what is handed to log_daily_signals carries the brokerage's message
\* with that signal.
C20_BrokerErrorRetained ==
    /\ \A o \in RejectedOrders :
           OrderSignal(o).action_taken = "order_failed"
    /\ \A k \in 1..Len(handed) : \A i \in 1..Len(handed[k]) :
           handed[k][i].action_taken = "order_failed"
               => \E o \in RejectedOrders :
                      /\ OrderSignal(o) = handed[k][i]
                      /\ orders[o].error \in SignalTexts(handed[k][i])

\* C20, the tag alone: the signal of a rejected order is tagged order_failed
\* and handed to log_daily_signals with that tag.
C20_TaggedOrderFailed ==
    /\ \A o \in RejectedOrders :
           OrderSignal(o).action_taken = "order_failed"
    /\ \A k \in 1..Len(handed) : \A o \in RejectedOrders :
           \E i \in 1..Len(handed[k]) :
               /\ handed[k][i] = OrderSignal(o)
               /\ handed[k][i].action_taken = "order_failed"

(***************************************************************************)
(* Properties of the methods called on their own (CallSpec)                *)
(***************************************************************************)
Returned(fn) == call.fn = fn /\ call.done

NoSideEffect == positions = positions_at_start /\ trades = <<>>

\* C11: check_sell_signals called again against the same positions table,
\* prices and ranking returns the same list of signals, and no call changes
\* positions or trades.
C11_CheckIdempotent ==
    call.fn = "check_sell_signals" =>
        /\ \A a, b \in 1..Len(call.returned) :
               call.returned[a] = call.returned[b]
        /\ NoSideEffect

\* C11 for calls whose read of the positions table gave the same rows.
C11_SameRowsSameSignals ==
    call.fn = "check_sell_signals" =>
        /\ \A a, b \in 1..Len(call.returned) :
               call.reads[a] = call.reads[b]
                   => call.returned[a] = call.returned[b]
        /\ NoSideEffect

\* C12: generate_daily_signals evaluates the top 30 of the ranking (all of it
\* when it is shorter) and no other symbol, and returns at most 30 BUY
\* signals, each with momentum_rank in 1..30.
C12_AtMostThirty ==
    Returned("generate_daily_signals") =>
        /\ Len(call.evaluated) = Min(TopN, Len(call.momentum_scores))
        /\ \A i \in 1..Len(call.evaluated) :
               call.evaluated[i] = call.momentum_scores[i]
        /\ Len(call.returned) <= TopN
        /\ \A i \in 1..Len(call.returned) :
               /\ call.returned[i].side = "BUY"
               /\ call.returned[i].momentum_rank \in 1..TopN
               /\ call.returned[i].symbol
                      = call.momentum_scores[call.returned[i].momentum_rank]

C12_Witness ==
    /\ Returned("generate_daily_signals")
    /\ Len(call.momentum_scores) > TopN
    /\ Len(call.returned) = TopN

EqualScore(x, y) == ~HigherScore(x, y) /\ ~HigherScore(y, x)

ScoreOrdered(market_data, series) ==
    /\ Range(series) = Scored(market_data)
    /\ Len(series) = Cardinality(Scored(market_data))
    /\ \A i, j \in 1..Len(series) :
           HigherScore(market_data[series[i]], market_data[series[j]]) => i < j

\* C13: calculate_momentum_12_1 returns every ranked symbol once, a symbol
\* with a higher score before one with a lower score, and symbols with equal
\* scores in the order of their columns.
C13_TotalOrder ==
    Returned("calculate_momentum_12_1") =>
        /\ ScoreOrdered(call.market_data, call.returned)
        /\ \A i, j \in 1..Len(call.returned) :
               (/\ i < j
                /\ EqualScore(call.market_data[call.returned[i]],
                              call.market_data[call.returned[j]]))
               => call.returned[i] < call.returned[j]

\* C13 without the tie-break: every ranked symbol once, higher score first.
C13_ScoreOrder ==
    Returned("calculate_momentum_12_1") =>
        ScoreOrdered(call.market_data, call.returned)

\* C14: calculate_macd returns None exactly for a series of fewer than
\* slow + signal points, and calculate_rsi exactly for one of fewer than
\* period + 1 points.
C14_NoneExactlyWhenShort ==
    /\ Returned("calculate_macd") =>
           (call.returned = None
                <=> call.len < call.params.slow + call.params.signal)
    /\ Returned("calculate_rsi") =>
           (call.returned = None <=> call.len < call.period + 1)

\* The shortest series with a MACD, default parameters.
C14_Witness ==
    /\ Returned("calculate_macd")
    /\ call.params.slow = MacdSlow
    /\ call.params.signal = MacdSignal
    /\ call.len = MacdSlow + MacdSignal
    /\ call.returned = DataFrame

MomentumExits(signals, symbol) ==
    {i \in 1..Len(signals) :
        signals[i].symbol = symbol /\ signals[i].reason = "momentum_exit"}

MomentumExitRule(signals, symbol, entry_price) ==
    LET price == call.price_of[symbol]
        ranking == call.momentum_scores
    IN  (price.ok /\ ~StopLossHit(entry_price, price.v)) =>
            /\ MomentumExits(signals, symbol) # {}
                   <=> symbol \notin Range(Head30(ranking))
            /\ \A i \in MomentumExits(signals, symbol) :
                   signals[i].momentum_rank =
                       IF symbol \in Range(ranking)
                       THEN IndexOf(ranking, symbol)
                       ELSE UnrankedRank

\* C16: for every held position with a price and no stop-loss,
\* check_sell_signals returns a momentum_exit SELL exactly if the symbol is
\* not in the top 30 of the ranking, with the symbol's rank in the ranking, or
\* 999 if it is not ranked.
C16_MomentumExitRule ==
    call.fn = "check_sell_signals" =>
        \A n \in 1..Len(call.returned) : \A s \in OpenSymbols(positions) :
            MomentumExitRule(call.returned[n], s, positions[s].avg_entry_price)

\* C16 for the positions the call read from the table.
C16_ForRowsRead ==
    call.fn = "check_sell_signals" =>
        \A n \in 1..Len(call.returned) : \A k \in 1..Len(call.reads[n]) :
            MomentumExitRule(call.returned[n], call.reads[n][k].symbol,
                             call.reads[n][k].entry_price)

\* A held symbol ranked below the top 30 leaves with its rank.
C16_RankedExitReached ==
    /\ call.fn = "check_sell_signals"
    /\ \E n \in 1..Len(call.returned) : \E i \in 1..Len(call.returned[n]) :
           /\ call.returned[n][i].reason = "momentum_exit"
           /\ call.returned[n][i].momentum_rank > TopN
           /\ call.returned[n][i].momentum_rank < UnrankedRank

UnheldWithCapacity ==
    /\ call.symbol \notin OpenSymbols(positions_at_start)
    /\ Cardinality(OpenSymbols(positions_at_start)) < max_positions

\* C17: for an unheld symbol with free capacity, execute_buy_order orders
\* floor((account_value / max_positions) / current_price) shares whatever the
\* number of open positions; without a price it tags no_price, with a
\* quantity of 0 or less insufficient_funds, and then places no order.
C17_BuySizing ==
    (Returned("execute_buy_order") /\ UnheldWithCapacity) =>
        IF ~call.price.ok
        THEN call.returned.tag = "no_price" /\ orders = <<>>
        ELSE LET quantity ==
                     call.account_value \div (max_positions * call.price.v)
             IN  IF quantity <= 0
                 THEN /\ call.returned.tag = "insufficient_funds"
                      /\ orders = <<>>
                 ELSE /\ Len(orders) = 1
                      /\ orders[1].quantity = quantity
                      /\ call.returned.tag
                             \in {"bought", "order_failed", "error"}

\* An order sized with a remainder, with another position open.
C17_Witness ==
    /\ Returned("execute_buy_order")
    /\ UnheldWithCapacity
    /\ OpenSymbols(positions_at_start) # {}
    /\ Len(orders) = 1
    /\ call.account_value % (max_positions * call.price.v) # 0

(***************************************************************************)
(* Properties of the run (Spec), continued                                 *)
(***************************************************************************)
ErrorRows == {k \in 1..Len(algorithm_runs) : algorithm_runs[k].status = "error"}

\* C21: the algorithm_runs row of a run that failed carries the counts the
\* run had reached: the signals generated and the trades executed.
C21_ErrorRowHasCounts ==
    \A k \in ErrorRows :
        /\ algorithm_runs[k].signals_generated
               = Len(buy_signals) + Len(sell_signals)
        /\ algorithm_runs[k].trades_executed = trades_executed

\* C21, what does hold: a failed run that reaches log_algorithm_run leaves one
\* row with status error, and returns status error.
C21_ErrorRowWritten ==
    (pc = "returned" /\ result.status = "error") =>
        /\ Cardinality(ErrorRows) = 1
        /\ \A k \in 1..Len(algorithm_runs) : algorithm_runs[k].status = "error"

AccountReads == {k \in 1..Len(attempts) : attempts[k].account_read # <<>>}

\* C22: within one run get_account_value is read at most once, and every buy
\* of the run is sized with that one value.
C22_AccountReadOnce ==
    /\ Cardinality(AccountReads) <= 1
    /\ \A j, k \in AccountReads :
           attempts[j].account_read = attempts[k].account_read

Tagged(signals, symbol, tag) ==
    \E i \in 1..Len(signals) :
        signals[i].symbol = symbol /\ signals[i].action_taken = tag

\* C25: a symbol whose SELL signal was filled in this run (tag sold) is not
\* bought by a BUY signal of the same run (tag bought).
C25_NoRebuyAfterSell ==
    \A s \in Symbols :
        ~(Tagged(sell_signals, s, "sold") /\ Tagged(buy_signals, s, "bought"))

\* C26: once the handling of a signal whose order the brokerage accepted is
\* over, the positions table agrees with the order: the bought symbol has an
\* open position, the sold symbol has no row.
C26_StoreAgreesWithBroker ==
    [][/\ OrderAccepted("BUY")
              => orders'[Len(orders')].symbol \in OpenSymbols(positions')
       /\ OrderAccepted("SELL")
              => orders'[Len(orders')].symbol \notin DOMAIN positions']_vars

\* This step is a call of execute_*_order whose order the brokerage rejected.
OrderRejected ==
    /\ Len(attempts') = Len(attempts) + 1
    /\ Len(orders') = Len(orders) + 1
    /\ ~orders'[Len(orders')].accepted

\* C28: an order the brokerage rejects changes neither trades nor positions:
\* no trade is recorded, a rejected buy stores no position, a rejected sell
\* leaves the position's row as it was.
C28_RejectedOrderNoEffect ==
    [][OrderRejected => (trades' = trades /\ positions' = positions)]_vars

\* A rejected sell of a held position and a rejected buy, nothing else done.
C28_Witness ==
    /\ \E o \in RejectedOrders :
           /\ orders[o].side = "SELL"
           /\ orders[o].symbol \in OpenSymbols(positions)
    /\ \E o \in RejectedOrders : orders[o].side = "BUY"
    /\ trades = <<>>
    /\ positions = positions_at_start

Filled(signals, tag) ==
    Cardinality({i \in 1..Len(signals) : signals[i].action_taken = tag})

\* C29: a run that returns success reports trades_executed = the number of
\* signals tagged bought or sold, and signals_generated = the number of buy
\* signals plus the number of sell signals; the algorithm_runs row says the
\* same.
C29_CountsMatchTags ==
    (pc = "returned" /\ result.status = "success") =>
        /\ result.trades_executed
               = Filled(buy_signals, "bought") + Filled(sell_signals, "sold")
        /\ result.signals_generated = Len(buy_signals) + Len(sell_signals)
        /\ algorithm_runs[Len(algorithm_runs)].trades_executed
               = result.trades_executed
        /\ algorithm_runs[Len(algorithm_runs)].signals_generated
               = result.signals_generated

\* A successful run with a filled sell, a filled buy and an order that was
\* placed and not filled.
C29_Witness ==
    /\ pc = "returned"
    /\ result.status = "success"
    /\ Filled(sell_signals, "sold") > 0
    /\ Filled(buy_signals, "bought") > 0
    /\ \E o \in RejectedOrders : TRUE

(***************************************************************************)
(* Properties of the calls (CallSpec), continued                           *)
(***************************************************************************)
ExtendedHoursCall ==
    /\ call.fn \in {"execute_buy_order", "execute_sell_order"}
    /\ call.done

\* The price the order of the call was computed from, in whole dollars.
OrderPrice ==
    IF call.fn = "execute_buy_order" THEN call.price.v ELSE call.current_price

\* The claimed limit price of the call, in thousandths of a dollar.
ClaimedLimit ==
    IF call.fn = "execute_buy_order"
    THEN Max(1005 * OrderPrice, 1000 * OrderPrice + 500)
    ELSE Min(995 * OrderPrice, 1000 * OrderPrice - 500)

\* C23 as stated: in extended-hours mode every order is a limit order whose
\* limit price is exactly max(1.005 * price, price + 0.50) for a buy and
\* min(0.995 * price, price - 0.50) for a sell; otherwise every order is a
\* market order.
C23_LimitIsFormula ==
    ExtendedHoursCall =>
        \A o \in 1..Len(orders) :
            IF call.extended_hours
            THEN /\ orders[o].order_type = "limit"
                 /\ Len(orders[o].limit_price) = 1
                 /\ 10 * orders[o].limit_price[1] = ClaimedLimit
            ELSE orders[o].order_type = "market"

\* C23, amended: in extended-hours mode every order is a limit order whose
\* limit price is that formula rounded to the nearest cent, at or above the
\* current price for a buy and below it for a sell; otherwise every order is
\* a market order without a limit price.
C23_LimitIsFormulaRounded ==
    ExtendedHoursCall =>
        \A o \in 1..Len(orders) :
            IF call.extended_hours
            THEN /\ orders[o].order_type = "limit"
                 /\ Len(orders[o].limit_price) = 1
                 /\ 10 * orders[o].limit_price[1] - ClaimedLimit \in -5..5
                 /\ orders[o].side = "BUY" =>
                        orders[o].limit_price[1] >= 100 * OrderPrice
                 /\ orders[o].side = "SELL" =>
                        orders[o].limit_price[1] < 100 * OrderPrice
            ELSE /\ orders[o].order_type = "market"
                 /\ orders[o].limit_price = <<>>

\* An extended-hours sell at 101: 0.995 * 101 = 100.495 is rounded.
C23_Witness ==
    /\ Returned("execute_sell_order")
    /\ call.extended_hours
    /\ call.current_price = 101
    /\ Len(orders) = 1
    /\ orders[1].order_type = "limit"
    /\ orders[1].limit_price \in {<<10049>>, <<10050>>}

\* C30: when get_account_value answers its fallback 0.0, a BUY of an unheld
\* symbol with free capacity and a price is tagged insufficient_funds and
\* no order is submitted.
C30_NoAccountInsufficientFunds ==
    (/\ Returned("execute_buy_order")
     /\ UnheldWithCapacity
     /\ call.account_value = 0
     /\ call.price.ok) =>
        /\ call.returned.tag = "insufficient_funds"
        /\ ~call.returned.submitted
        /\ orders = <<>>
        /\ trades = <<>>
        /\ positions = positions_at_start

\* Such a buy with a position already open and the positions read.
C30_Witness ==
    /\ Returned("execute_buy_order")
    /\ UnheldWithCapacity
    /\ call.db_ok
    /\ OpenSymbols(positions_at_start) # {}
    /\ call.account_value = 0
    /\ call.price.ok
    /\ call.returned.tag = "insufficient_funds"

IndicatorCallReturned ==
    Returned("generate_daily_signals") /\ call.filter = "indicators"

SignalsOf(symbol) ==
    {i \in 1..Len(call.returned) : call.returned[i].symbol = symbol}

\* The filter as C24 words it, on the last two MACD and RSI values.
ClaimedMacdBullish(prev, cur) ==
    (cur > 0 /\ prev <= 0) \/ (cur > prev /\ cur > 0)

ClaimedRsiBullish(prev, cur) ==
    (cur > 50 /\ prev <= 50) \/ (cur > 30 /\ prev <= 30)

ClaimedPass(symbol) ==
    LET macd == call.macd_data[symbol]
        rsi == call.rsi_data[symbol]
        macd_bullish == ClaimedMacdBullish(macd.prev, macd.current)
        rsi_bullish == ClaimedRsiBullish(rsi.prev, rsi.current)
    IN  /\ macd.available
        /\ rsi.available
        /\ IF call.relaxed_filters
           THEN macd_bullish \/ rsi_bullish
           ELSE macd_bullish /\ rsi_bullish

\* C24: generate_daily_signals emits a BUY signal for a top-30 symbol if and
\* only if both indicators are available and the filter passes (strict: MACD
\* bullish and RSI bullish, relaxed: at least one), one signal per symbol; a
\* symbol with an unavailable indicator is skipped and the others are still
\* decided.
C24_BuyIffFiltersPass ==
    IndicatorCallReturned =>
        /\ \A symbol \in Range(Head30(call.momentum_scores)) :
              Cardinality(SignalsOf(symbol)) =
                  (IF ClaimedPass(symbol) THEN 1 ELSE 0)
        /\ \A i \in 1..Len(call.returned) :
              /\ call.returned[i].side = "BUY"
              /\ call.returned[i].symbol \in Range(Head30(call.momentum_scores))

\* The first symbol of the ranking has no MACD and is skipped; the second,
\* bullish on one indicator only, is emitted in relaxed mode.
C24_Witness ==
    /\ IndicatorCallReturned
    /\ Len(call.momentum_scores) = 2
    /\ ~call.macd_data[call.momentum_scores[1]].available
    /\ call.relaxed_filters
    /\ ~ClaimedRsiBullish(call.rsi_data[call.momentum_scores[2]].prev,
                          call.rsi_data[call.momentum_scores[2]].current)
    /\ Len(call.returned) = 1
    /\ call.returned[1].symbol = call.momentum_scores[2]

(***************************************************************************)
(* Properties of two overlapping runs (OverlapSpec)                        *)
(***************************************************************************)
\* The buy orders for a symbol that the brokerage accepted.  (A second order
\* after a rejected one would be no harm, so only accepted orders count.)
AcceptedBuysFor(symbol) ==
    {o \in 1..Len(orders) :
        /\ orders[o].side = "BUY"
        /\ orders[o].symbol = symbol
        /\ orders[o].accepted}

\* C27: when the scheduled run and the manual run overlap, at most one of
\* them has a buy order for any given symbol (accepted by the brokerage)
\* and the number of open positions never exceeds max_positions.
C27_OverlapSafe ==
    call.fn = "overlap" =>
        /\ \A symbol \in Symbols :
              \A o1, o2 \in AcceptedBuysFor(symbol) :
                  orders[o1].run = orders[o2].run
        /\ Cardinality(OpenSymbols(positions)) <= max_positions

\* The first half of C27 alone: no symbol is bought by both runs.
C27_OneBuyerPerSymbol ==
    call.fn = "overlap" =>
        \A symbol \in Symbols :
            \A o1, o2 \in AcceptedBuysFor(symbol) :
                orders[o1].run = orders[o2].run

\* The second half of C27 alone.
C27_OverlapWithinMaxPositions ==
    call.fn = "overlap" =>
        Cardinality(OpenSymbols(positions)) <= max_positions

\* Without overlap both halves hold: when one run has returned before the
\* other starts, no symbol is bought twice and the cap is kept.
C27_SafeInSequence ==
    (/\ call.fn = "overlap"
     /\ \E r \in Runs : call.run[r].at = "idle") =>
        /\ \A symbol \in Symbols :
              Cardinality(AcceptedBuysFor(symbol)) <= 1
        /\ Cardinality(OpenSymbols(positions)) <= max_positions

====
